---- MODULE Spec2Model ----
(***************************************************************************)
(* jsonfix (phrz/jsonfix, src/jsonfix.py): repair of truncated JSON text.  *)
(*                                                                         *)
(* A text is a sequence of one-character strings.  Positions kept by the   *)
(* program (the keys of _token_stack, _last_object_position,               *)
(* _last_array_position, the scan index i) are 0-based as in the source;   *)
(* the character at source index k of a text s is s[k+1].                  *)
(***************************************************************************)
EXTENDS Integers, Sequences, FiniteSets, TLC

VARIABLES
    pc,                     \* where the single call of fix is (see Next)
    json_string,            \* the argument of fix
    head, body, tail,       \* fix: head, body, tail = self._trim(json_string)
    i,                      \* fix: the scan index of `for i in range(l)`
    _token_stack,           \* Fixer._token_stack: sequence of <<position, token>>
    _is_in_string,          \* Fixer._is_in_string
    _last_object_position,  \* Fixer._last_object_position
    _last_array_position,   \* Fixer._last_array_position
    tmp_json,               \* _pad: the text being padded
    result,                 \* what fix returned (pc = "returned")
    error                   \* the padding named by the RuntimeError (pc = "raised")

vars == <<pc, json_string, head, body, tail, i, _token_stack, _is_in_string,
          _last_object_position, _last_array_position, tmp_json, result, error>>

-----------------------------------------------------------------------------
(* Bounds of the checked inputs.                                           *)

\* longest input enumerated exhaustively over Alphabet
MaxLen == 3
\* longest leading and trailing whitespace put around a truncated document
MaxPad == 2

-----------------------------------------------------------------------------
(* Small helpers on integers and texts.                                    *)

Min(S) == CHOOSE x \in S : \A y \in S : x <= y
Max(S) == CHOOSE x \in S : \A y \in S : x >= y

\* Python's Optional: the value None (no text holds the element "None")
None == <<"None">>

\* s.startswith(t)
StartsWith(s, t) == Len(t) <= Len(s) /\ SubSeq(s, 1, Len(t)) = t
\* s.endswith(t)
EndsWith(s, t) == Len(t) <= Len(s) /\ SubSeq(s, Len(s) - Len(t) + 1, Len(s)) = t
\* s[k:] for a source index k >= 0
From(s, k) == SubSeq(s, k + 1, Len(s))

whitespace == {" ", "\t", "\r", "\n"}

-----------------------------------------------------------------------------
(* The validity oracle: json.loads of CPython (the C scanner), as a        *)
(* recursive-descent recogniser.  Every parse operator takes a text and a  *)
(* 1-based position and gives the position after what it read, 0 when it   *)
(* rejects.  NaN, Infinity and -Infinity are accepted by json.loads too;    *)
(* none of their letters is in the checked alphabets.                      *)

Digits == {"0", "1", "2", "3", "4", "5", "6", "7", "8", "9"}
HexDigits == Digits \cup {"a", "b", "c", "d", "e", "f", "A", "B", "C", "D", "E", "F"}
SimpleEscapes == {"\"", "\\", "/", "b", "f", "n", "r", "t"}
\* characters below 0x20, rejected inside a string (strict=True)
ControlChars == {"\t", "\r", "\n", "\f"}

\* WHITESPACE.match(s, p).end()
SkipWs(s, p) ==
    LET stop == {q \in p..Len(s) : s[q] \notin whitespace}
    IN  IF stop = {} THEN Max({p, Len(s) + 1}) ELSE Min(stop)

\* the end of the run of digits that starts at p
DigitsEnd(s, p) ==
    LET stop == {q \in p..Len(s) : s[q] \notin Digits}
    IN  IF stop = {} THEN Max({p, Len(s) + 1}) ELSE Min(stop)

At(s, p) == IF p >= 1 /\ p <= Len(s) THEN s[p] ELSE ""

\* -?(0|[1-9]\d*)(\.\d+)?([eE][-+]?\d+)?
match_number(s, p) ==
    LET q0 == IF At(s, p) = "-" THEN p + 1 ELSE p
        q1 == IF At(s, q0) = "0" THEN q0 + 1
              ELSE IF At(s, q0) \in Digits THEN DigitsEnd(s, q0)
              ELSE 0
        q2 == IF At(s, q1) = "." /\ At(s, q1 + 1) \in Digits
              THEN DigitsEnd(s, q1 + 1) ELSE q1
        e0 == IF At(s, q2 + 1) \in {"-", "+"} THEN q2 + 2 ELSE q2 + 1
        q3 == IF At(s, q2) \in {"e", "E"} /\ At(s, e0) \in Digits
              THEN DigitsEnd(s, e0) ELSE q2
    IN  IF q1 = 0 THEN 0 ELSE q3

RECURSIVE scanstring(_, _)
\* p: the position after the opening quote
scanstring(s, p) ==
    IF p > Len(s) THEN 0
    ELSE IF s[p] = "\"" THEN p + 1
    ELSE IF s[p] = "\\" THEN
        IF At(s, p + 1) \in SimpleEscapes THEN scanstring(s, p + 2)
        ELSE IF At(s, p + 1) = "u" /\ \A k \in (p + 2)..(p + 5) : At(s, k) \in HexDigits
             THEN scanstring(s, p + 6)
        ELSE 0
    ELSE IF s[p] \in ControlChars THEN 0
    ELSE scanstring(s, p + 1)

RECURSIVE scan_once(_, _)
RECURSIVE array_items(_, _)
RECURSIVE object_items(_, _)

\* p: the position of an element of an array
array_items(s, p) ==
    LET e == scan_once(s, p)
        q == SkipWs(s, e)
    IN  IF e = 0 THEN 0
        ELSE IF At(s, q) = "]" THEN q + 1
        ELSE IF At(s, q) = "," THEN array_items(s, SkipWs(s, q + 1))
        ELSE 0

\* p: the position where a key of an object must start
object_items(s, p) ==
    LET k == IF At(s, p) = "\"" THEN scanstring(s, p + 1) ELSE 0
        c == SkipWs(s, k)
        e == scan_once(s, SkipWs(s, c + 1))
        q == SkipWs(s, e)
    IN  IF k = 0 \/ At(s, c) # ":" THEN 0
        ELSE IF e = 0 THEN 0
        ELSE IF At(s, q) = "}" THEN q + 1
        ELSE IF At(s, q) = "," THEN object_items(s, SkipWs(s, q + 1))
        ELSE 0

Word(s, p, w) == p + Len(w) - 1 <= Len(s) /\ SubSeq(s, p, p + Len(w) - 1) = w

scan_once(s, p) ==
    LET c == At(s, p)
    IN  IF c = "" THEN 0
        ELSE IF c = "\"" THEN scanstring(s, p + 1)
        ELSE IF c = "{" THEN
            (IF At(s, SkipWs(s, p + 1)) = "}" THEN SkipWs(s, p + 1) + 1
             ELSE object_items(s, SkipWs(s, p + 1)))
        ELSE IF c = "[" THEN
            (IF At(s, SkipWs(s, p + 1)) = "]" THEN SkipWs(s, p + 1) + 1
             ELSE array_items(s, SkipWs(s, p + 1)))
        ELSE IF c = "n" THEN (IF Word(s, p, <<"n", "u", "l", "l">>) THEN p + 4 ELSE 0)
        ELSE IF c = "t" THEN (IF Word(s, p, <<"t", "r", "u", "e">>) THEN p + 4 ELSE 0)
        ELSE IF c = "f" THEN (IF Word(s, p, <<"f", "a", "l", "s", "e">>) THEN p + 5 ELSE 0)
        ELSE match_number(s, p)

\* Fixer._is_valid_json: json.loads(json_string) does not raise JSONDecodeError
_is_valid_json(s) ==
    LET e == scan_once(s, SkipWs(s, 1))
    IN  e # 0 /\ SkipWs(s, e) = Len(s) + 1

-----------------------------------------------------------------------------
(* The trimmer.                                                            *)

\* split_at: (l[:i], l[i:]) at the first index i, in the order walked, whose
\* character satisfies the predicate; (l, '') when none does
split_at(predicate, l, from_right) ==
    LET hits == {k \in 1..Len(l) : predicate[l[k]]}
        k == IF from_right THEN Max(hits) ELSE Min(hits)
    IN  IF hits = {} THEN <<l, <<>>>>
        ELSE <<SubSeq(l, 1, k - 1), SubSeq(l, k, Len(l))>>

\* the characters of a text
Chars(s) == {s[k] : k \in 1..Len(s)}

\* Fixer._trim: <<leading, body, trailing>>; a predicate on characters is the
\* function of its values on the characters of the text
_trim(string) ==
    LET first == split_at([c \in Chars(string) |-> c \notin whitespace], string, FALSE)
        second == split_at([c \in Chars(string) |-> c \in whitespace], first[2], TRUE)
    IN  <<first[1], second[1], second[2]>>

-----------------------------------------------------------------------------
(* The quick fixer.                                                        *)

_missing_value == <<"n", "u", "l", "l">>

Literals == << <<"t", "r", "u", "e">>, <<"f", "a", "l", "s", "e">>, <<"n", "u", "l", "l">> >>

_complementary_pairs == [c \in {"{", "[", "\""} |->
                            IF c = "{" THEN "}" ELSE IF c = "[" THEN "]" ELSE "\""]

\* _complementary_pairs.get(c)
PairOf(c) == IF c \in DOMAIN _complementary_pairs THEN _complementary_pairs[c] ELSE "None"

\* Fixer._maybe_literal: the first literal of true, false, null that the text
\* starts with
_maybe_literal(text) ==
    LET found == {k \in 1..Len(Literals) : StartsWith(text, Literals[k])}
    IN  IF text[1] \notin {"t", "f", "n"} THEN None
        ELSE IF found = {} THEN None
        ELSE Literals[Min(found)]

\* Fixer._pad_string
_pad_string(string) ==
    LET last == string[Len(string)]
        last2 == SubSeq(string, Max({1, Len(string) - 1}), Len(string))
    IN  IF last2 = <<"\\", "\"">> \/ last # "\"" THEN string \o <<"\"">>
        ELSE None

\* Fixer._quick_fix
_quick_fix(text) ==
    LET pair == PairOf(text[1])
    IN  IF Len(text) = 1 /\ pair # "None" THEN text \o <<pair>>
        ELSE IF text[1] # "\"" THEN _maybe_literal(text)
        ELSE _pad_string(text)

-----------------------------------------------------------------------------
(* The token stack: an OrderedDict from position to token, kept as the     *)
(* sequence of its items in insertion order.                               *)

\* Fixer._last_token on a stack
_last_token(stack) == IF Len(stack) > 0 THEN stack[Len(stack)][2] ELSE "None"

\* self._token_stack[k] = token: a new key is appended, an old key keeps its place
SetItem(stack, k, token) ==
    LET at == {j \in 1..Len(stack) : stack[j][1] = k}
    IN  IF at = {} THEN Append(stack, <<k, token>>)
        ELSE [stack EXCEPT ![Min(at)] = <<k, token>>]

\* the stack without its j-th item
Remove(stack, j) == SubSeq(stack, 1, j - 1) \o SubSeq(stack, j + 1, Len(stack))

\* Fixer._pop_token(): popitem() removes the item inserted last
PopLast(stack) == SubSeq(stack, 1, Len(stack) - 1)

\* _pop_token(token) as it would be if it searched the keys in insertion order
\* (without reversed, line 147): removes the item nearest the head
PopTokenFromHead(stack, token) ==
    LET at == {j \in 1..Len(stack) : stack[j][2] = token}
    IN  IF at = {} THEN stack ELSE Remove(stack, Min(at))

\* Fixer._pop_token(token): removes the item nearest the tail holding token
PopToken(stack, token) ==
    LET at == {j \in 1..Len(stack) : stack[j][2] = token}
    IN  IF at = {} THEN stack ELSE Remove(stack, Max(at))

-----------------------------------------------------------------------------
(* The scanner, on the scan state st = [stack, in_string, obj, arr].       *)

ValueStart == {"\"", "{", "[", "t", "f", "n"} \cup Digits

\* _maybe_string as it would be without the test of _last_token (line 159)
_maybe_stringAlwaysPush(st, prev, char, k) ==
    LET toggled == IF prev # "\\" /\ char = "\"" THEN ~st.in_string ELSE st.in_string
    IN  [st EXCEPT !.in_string = toggled,
                   !.stack = IF toggled THEN SetItem(st.stack, k, "\"") ELSE st.stack]

\* Fixer._maybe_string: the state after it; its return value is in_string
_maybe_string(st, prev, char, k) ==
    LET toggled == IF prev # "\\" /\ char = "\"" THEN ~st.in_string ELSE st.in_string
    IN  [st EXCEPT !.in_string = toggled,
                   !.stack = IF toggled /\ _last_token(st.stack) # "\""
                             THEN SetItem(st.stack, k, "\"") ELSE st.stack]

\* Fixer._update_position
_update_position(st, char, k) ==
    IF char = "{" THEN [st EXCEPT !.obj = k]
    ELSE IF char = "}" THEN [st EXCEPT !.stack = PopToken(st.stack, "{"), !.obj = -1]
    ELSE IF char = "[" THEN [st EXCEPT !.arr = k]
    ELSE IF char = "]" THEN [st EXCEPT !.stack = PopToken(st.stack, "["), !.arr = -1]
    ELSE st

\* Fixer._stack
_stack(st, prev, char, k) ==
    LET s1 == _maybe_string(st, prev, char, k)
        last == _last_token(s1.stack)
        s2 == IF last \in {",", ":", "\""} /\ char \in ValueStart
              THEN [s1 EXCEPT !.stack = PopLast(s1.stack)] ELSE s1
        s3 == IF char \in {",", ":", "[", "{"}
              THEN [s2 EXCEPT !.stack = SetItem(s2.stack, k, char)] ELSE s2
    IN  IF s1.in_string THEN s1 ELSE _update_position(s3, char, k)

\* Fixer._reset
_reset == [stack |-> <<>>, in_string |-> FALSE, obj |-> -1, arr |-> -1]

-----------------------------------------------------------------------------
(* Regular expressions, as the set of positions a match can end at.  P is  *)
(* the set of 1-based positions the match so far can have reached.         *)

\* a literal character
Lit(s, P, c) == {p + 1 : p \in {q \in P : At(s, q) = c}}
\* c?
Opt(s, P, c) == P \cup Lit(s, P, c)
\* a character class: [chars], or [^chars] when negated
Class(chars) == [chars |-> chars, negated |-> FALSE]
NotClass(chars) == [chars |-> chars, negated |-> TRUE]
InClass(c, class) == (c \in class.chars) # class.negated
\* class*
Star(s, P, class) ==
    {q \in 1..(Len(s) + 1) : \E p \in P : p <= q /\ \A k \in p..(q - 1) : InClass(s[k], class)}
\* class+
Plus(s, P, class) ==
    {q \in 1..(Len(s) + 1) : \E p \in P : p < q /\ \A k \in p..(q - 1) : InClass(s[k], class)}
\* $ : the end of the text, or just before a newline that ends it
AtEnd(s, p) == p = Len(s) + 1 \/ (p = Len(s) /\ s[p] = "\n")

\* \s of a str pattern, among the characters of the checked alphabets
RegexSpace == {" ", "\t", "\r", "\n", "\f"}

\* re.match(r'(tr?u?e?|fa?l?s?e|nu?l?l?)$', s): where group 1 can end; at most
\* one position, as the pattern matches no newline
LiteralMatch(s) ==
    LET alt1 == Opt(s, Opt(s, Opt(s, Lit(s, {1}, "t"), "r"), "u"), "e")
        alt2 == Lit(s, Opt(s, Opt(s, Opt(s, Lit(s, {1}, "f"), "a"), "l"), "s"), "e")
        alt3 == Opt(s, Opt(s, Opt(s, Lit(s, {1}, "n"), "u"), "l"), "l")
    IN  {e \in alt1 \cup alt2 \cup alt3 : AtEnd(s, e)}

\* one \s*\"[^"]+\"\s*:\s*[^,]+,? from the positions P
MemberMatch(s, P) ==
    LET open == Lit(s, Star(s, P, Class(RegexSpace)), "\"")
        key == Lit(s, Plus(s, open, NotClass({"\""})), "\"")
        colon == Lit(s, Star(s, key, Class(RegexSpace)), ":")
        value == Plus(s, Star(s, colon, Class(RegexSpace)), NotClass({","}))
    IN  Opt(s, value, ",")

RECURSIVE MembersMatch(_, _)
\* (...)+ : every position one or more members can end at
MembersMatch(s, P) ==
    LET more == P \cup MemberMatch(s, P)
    IN  IF more = P THEN P ELSE MembersMatch(s, more)

\* re.match(r'(\s*\"[^"]+\"\s*:\s*[^,]+,?)+$', part) is not None
WellFormedMembers(part) ==
    \E e \in MembersMatch(part, MemberMatch(part, {1})) : AtEnd(part, e)

-----------------------------------------------------------------------------
(* The padder.                                                             *)

\* str.rstrip(',')
RStripComma(s) ==
    LET keep == {k \in 1..Len(s) : s[k] # ","}
    IN  IF keep = {} THEN <<>> ELSE SubSeq(s, 1, Max(keep))

RECURSIVE PopCommas(_)
\* _pad: while self._last_token() == ',': self._pop_token()
PopCommas(stack) ==
    IF _last_token(stack) = "," THEN PopCommas(PopLast(stack)) ELSE stack

\* _pad, its first statement: trailing commas leave the text and the stack
\* unless the scan ended inside a string; <<scan state, text>>
StripCommas(st, tmp) ==
    IF st.in_string THEN <<st, tmp>>
    ELSE <<[st EXCEPT !.stack = PopCommas(st.stack)], RStripComma(tmp)>>

\* Fixer._pad_literal
_pad_literal(in_string, tmp) ==
    LET ends == LiteralMatch(tmp)
        g1 == SubSeq(tmp, 1, Max(ends) - 1)
        literal == _maybe_literal(g1)
    IN  IF in_string THEN tmp
        ELSE IF ends = {} THEN tmp
        ELSE IF literal = None THEN tmp
        ELSE SubSeq(tmp, 1, Len(tmp) - Len(g1)) \o literal

\* Fixer._object_needs_padding, on a text that is not empty
_object_needs_padding(st, tmp) ==
    LET last == tmp[Len(tmp)]
        is_empty == last = "{" /\ ~st.in_string
    IN  ~is_empty /\ st.arr < st.obj

\* Fixer._pad_object, on a text that is not empty: <<scan state, text>>
_pad_object(st, tmp) ==
    LET part == From(tmp, st.obj + 1)
        quoted == IF st.in_string THEN tmp \o <<"\"">> ELSE tmp
        keyed == IF EndsWith(quoted, <<":">>) THEN quoted ELSE quoted \o <<":">>
    IN  IF ~_object_needs_padding(st, tmp) THEN <<st, tmp>>
        ELSE IF WellFormedMembers(part) THEN <<st, tmp>>
        ELSE << IF _last_token(st.stack) = "\""
                THEN [st EXCEPT !.stack = PopLast(st.stack)] ELSE st,
                keyed \o _missing_value >>

RECURSIVE ClosersOrToken(_)
\* Closers as it would be if get fell back on the token itself (line 217)
ClosersOrToken(stack) ==
    IF Len(stack) = 0 THEN <<>>
    ELSE <<IF PairOf(_last_token(stack)) # "None"
           THEN PairOf(_last_token(stack)) ELSE _last_token(stack)>>
             \o ClosersOrToken(PopLast(stack))

RECURSIVE Closers(_)
\* _pad_stack: the closers of the stack's items, last item first
Closers(stack) ==
    IF Len(stack) = 0 THEN <<>>
    ELSE (IF PairOf(_last_token(stack)) # "None"
          THEN <<PairOf(_last_token(stack))>> ELSE <<>>) \o Closers(PopLast(stack))

\* Fixer._pad_stack
_pad_stack(stack, tmp) == tmp \o Closers(stack)

-----------------------------------------------------------------------------
(* fix as a function of its argument, on a Fixer whose fields _reset has   *)
(* set: <<how the call ends, the text returned or reported>>.              *)

RECURSIVE ScanAll(_, _, _)
\* the loop of fix from index k on
ScanAll(st, text, k) ==
    IF k >= Len(text) THEN st
    ELSE ScanAll(IF text[k + 1] \in whitespace THEN st
                 ELSE _stack(st, IF k = 0 THEN "" ELSE text[k], text[k + 1], k),
                 text, k + 1)

fix(s) ==
    LET trimmed == _trim(s)
        b == trimmed[2]
        quick == _quick_fix(b)
        scanned == ScanAll(_reset, b, 0)
        stripped == StripCommas(scanned, b)
        completed == _pad_literal(scanned.in_string, stripped[2])
        padded == _pad_object(stripped[1], completed)
        tmp == _pad_stack(padded[1].stack, padded[2])
    IN  IF Len(b) = 0 \/ _is_valid_json(b) THEN <<"returned", b>>
        ELSE IF quick # None THEN <<"returned", quick>>
        ELSE IF Len(completed) = 0 THEN <<"IndexError", <<>>>>
        ELSE IF _is_valid_json(tmp) THEN <<"returned", trimmed[1] \o tmp \o trimmed[3]>>
        ELSE <<"raised", From(tmp, Len(b))>>

-----------------------------------------------------------------------------
(* The inputs of the checked calls.                                        *)

\* the characters of the inputs enumerated exhaustively
Alphabet == {"{", "}", "[", "]", "\"", ",", ":", "\\", " ", "1", "a", "t"}

\* every text over Alphabet of length at most n
Texts(n) == UNION {[1..k -> Alphabet] : k \in 0..n}

\* valid documents, given to fix cut off at every length
Documents == {
    \* {"a":1,"b":2}
    <<"{", "\"", "a", "\"", ":", "1", ",", "\"", "b", "\"", ":", "2", "}">>,
    \* [1,2,3]
    <<"[", "1", ",", "2", ",", "3", "]">>,
    \* {"a":"hello"}
    <<"{", "\"", "a", "\"", ":", "\"", "h", "e", "l", "l", "o", "\"", "}">>,
    \* {"x":[1,2,3]}
    <<"{", "\"", "x", "\"", ":", "[", "1", ",", "2", ",", "3", "]", "}">>,
    \* {"a":{},"b":1}
    <<"{", "\"", "a", "\"", ":", "{", "}", ",", "\"", "b", "\"", ":", "1", "}">>,
    \* {"a":[1,2],"b":1 }
    <<"{", "\"", "a", "\"", ":", "[", "1", ",", "2", "]", ",", "\"", "b", "\"", ":", "1", " ", "}">>,
    \* [true,false,null]
    <<"[", "t", "r", "u", "e", ",", "f", "a", "l", "s", "e", ",", "n", "u", "l", "l", "]">>,
    \* {"":1}
    <<"{", "\"", "\"", ":", "1", "}">>,
    \* ["a\\",1]
    <<"[", "\"", "a", "\\", "\\", "\"", ",", "1", "]">>,
    \* {"a":{"b":[{"c":true}]}}
    <<"{", "\"", "a", "\"", ":", "{", "\"", "b", "\"", ":", "[", "{", "\"", "c", "\"", ":", "t", "r", "u", "e", "}", "]", "}", "}">>,
    \* [[1],{"a":null}]
    <<"[", "[", "1", "]", ",", "{", "\"", "a", "\"", ":", "n", "u", "l", "l", "}", "]">>,
    \* {"a":[[1,2],3]}
    <<"{", "\"", "a", "\"", ":", "[", "[", "1", ",", "2", "]", ",", "3", "]", "}">>,
    \* true
    <<"t", "r", "u", "e">>,
    \* false
    <<"f", "a", "l", "s", "e">>,
    \* null
    <<"n", "u", "l", "l">>,
    \* {"a\"b" : "c,d"}
    <<"{", "\"", "a", "\\", "\"", "b", "\"", " ", ":", " ", "\"", "c", ",", "d", "\"", "}">>
}

Prefixes(S) == UNION {{SubSeq(d, 1, k) : k \in 0..Len(d)} : d \in S}

\* whitespace put before and after a cut-off document
LeadPads == UNION {[1..k -> {" "}] : k \in 0..MaxPad}
TrailPads == UNION {[1..k -> {" ", "\n"}] : k \in 0..MaxPad}

\* texts that are no cut-off document: a whole literal with more text after it
Damaged == {<<"t", "r", "u", "e", "]">>, <<"n", "u", "l", "l", "1">>,
            <<"f", "a", "l", "s", "e", ",", "1">>}

Inputs ==
    Texts(MaxLen) \cup Damaged
        \cup {l \o p \o t : l \in LeadPads, p \in Prefixes(Documents), t \in TrailPads}

-----------------------------------------------------------------------------
(* The program: __main__ constructs a Fixer and calls fix once on the text *)
(* it read.  pc names the statement of fix (or of _pad) that runs next.    *)

\* the Fixer's fields as a scan state
State == [stack |-> _token_stack, in_string |-> _is_in_string,
          obj |-> _last_object_position, arr |-> _last_array_position]

\* the fields written from a scan state
SetState(st) ==
    /\ _token_stack' = st.stack
    /\ _is_in_string' = st.in_string
    /\ _last_object_position' = st.obj
    /\ _last_array_position' = st.arr

KeepState == UNCHANGED <<_token_stack, _is_in_string, _last_object_position,
                         _last_array_position>>

\* the class attributes of Fixer, as a new instance reads them
Init ==
    /\ pc = "idle"
    /\ json_string = <<>>
    /\ head = <<>> /\ body = <<>> /\ tail = <<>>
    /\ i = 0
    /\ _token_stack = <<>>
    /\ _is_in_string = FALSE
    /\ _last_object_position = -1
    /\ _last_array_position = -1
    /\ tmp_json = <<>>
    /\ result = <<>>
    /\ error = <<>>

\* fix is entered with a text s: head, body, tail = self._trim(json_string)
Enter(s) ==
    /\ json_string' = s
    /\ head' = _trim(s)[1] /\ body' = _trim(s)[2] /\ tail' = _trim(s)[3]
    /\ pc' = "check"
    /\ KeepState
    /\ UNCHANGED <<i, tmp_json, result, error>>

\* __main__: out = fixer.fix(total_input), on any of the inputs
Call ==
    /\ pc = "idle"
    /\ \E s \in Inputs : Enter(s)

\* if len(body) == 0 or self._is_valid_json(body): return body
ReturnBody ==
    /\ pc = "check"
    /\ Len(body) = 0 \/ _is_valid_json(body)
    /\ result' = body
    /\ pc' = "returned"
    /\ KeepState
    /\ UNCHANGED <<json_string, head, body, tail, i, tmp_json, error>>

\* quick_fixed_json is not None: return quick_fixed_json
ReturnQuickFix ==
    /\ pc = "check"
    /\ ~(Len(body) = 0 \/ _is_valid_json(body))
    /\ _quick_fix(body) # None
    /\ result' = _quick_fix(body)
    /\ pc' = "returned"
    /\ KeepState
    /\ UNCHANGED <<json_string, head, body, tail, i, tmp_json, error>>

\* Reset as it would be without the call of _reset (line 67)
ResetKeepsFields ==
    /\ pc = "check"
    /\ ~(Len(body) = 0 \/ _is_valid_json(body))
    /\ _quick_fix(body) = None
    /\ KeepState
    /\ i' = 0
    /\ pc' = "scan"
    /\ UNCHANGED <<json_string, head, body, tail, tmp_json, result, error>>

\* quick_fixed_json is None: self._reset() and the scan starts
Reset ==
    /\ pc = "check"
    /\ ~(Len(body) = 0 \/ _is_valid_json(body))
    /\ _quick_fix(body) = None
    /\ SetState(_reset)
    /\ i' = 0
    /\ pc' = "scan"
    /\ UNCHANGED <<json_string, head, body, tail, tmp_json, result, error>>

\* one turn of the loop of fix, on a character that is not whitespace
ScanToken ==
    /\ pc = "scan"
    /\ i < Len(body)
    /\ body[i + 1] \notin whitespace
    /\ SetState(_stack(State, IF i = 0 THEN "" ELSE body[i], body[i + 1], i))
    /\ i' = i + 1
    /\ UNCHANGED <<pc, json_string, head, body, tail, tmp_json, result, error>>

\* one turn of the loop of fix, on a whitespace character
ScanWhitespace ==
    /\ pc = "scan"
    /\ i < Len(body)
    /\ body[i + 1] \in whitespace
    /\ i' = i + 1
    /\ KeepState
    /\ UNCHANGED <<pc, json_string, head, body, tail, tmp_json, result, error>>

\* the loop is over: _fix_or_fail enters _pad, which strips trailing commas
PadStrip ==
    /\ pc = "scan"
    /\ i = Len(body)
    /\ SetState(StripCommas(State, body)[1])
    /\ tmp_json' = StripCommas(State, body)[2]
    /\ pc' = "pad_literal"
    /\ UNCHANGED <<json_string, head, body, tail, i, result, error>>

\* tmp_json = self._pad_literal(tmp_json)
PadLiteral ==
    /\ pc = "pad_literal"
    /\ tmp_json' = _pad_literal(_is_in_string, tmp_json)
    /\ pc' = "pad_object"
    /\ KeepState
    /\ UNCHANGED <<json_string, head, body, tail, i, result, error>>

\* tmp_json = self._pad_object(tmp_json)
PadObject ==
    /\ pc = "pad_object"
    /\ Len(tmp_json) > 0
    /\ SetState(_pad_object(State, tmp_json)[1])
    /\ tmp_json' = _pad_object(State, tmp_json)[2]
    /\ pc' = "pad_stack"
    /\ UNCHANGED <<json_string, head, body, tail, i, result, error>>

\* _object_needs_padding reads tmp_json[-1] of an empty text: IndexError
PadObjectIndexError ==
    /\ pc = "pad_object"
    /\ Len(tmp_json) = 0
    /\ pc' = "IndexError"
    /\ KeepState
    /\ UNCHANGED <<json_string, head, body, tail, i, tmp_json, result, error>>

\* return self._pad_stack(tmp_json)
PadStack ==
    /\ pc = "pad_stack"
    /\ tmp_json' = _pad_stack(_token_stack, tmp_json)
    /\ pc' = "validate"
    /\ KeepState
    /\ UNCHANGED <<json_string, head, body, tail, i, result, error>>

\* _fix_or_fail finds tmp valid: fix returns head + tmp + tail
ReturnFixed ==
    /\ pc = "validate"
    /\ _is_valid_json(tmp_json)
    /\ result' = head \o tmp_json \o tail
    /\ pc' = "returned"
    /\ KeepState
    /\ UNCHANGED <<json_string, head, body, tail, i, tmp_json, error>>

\* _fix_or_fail finds tmp invalid: RuntimeError naming tmp[l:], l = len(body)
Raise ==
    /\ pc = "validate"
    /\ ~_is_valid_json(tmp_json)
    /\ error' = From(tmp_json, Len(body))
    /\ pc' = "raised"
    /\ KeepState
    /\ UNCHANGED <<json_string, head, body, tail, i, tmp_json, result>>

Next ==
    \/ Call
    \/ ReturnBody
    \/ ReturnQuickFix
    \/ Reset
    \/ ScanToken
    \/ ScanWhitespace
    \/ PadStrip
    \/ PadLiteral
    \/ PadObject
    \/ PadObjectIndexError
    \/ PadStack
    \/ ReturnFixed
    \/ Raise

Spec == Init /\ [][Next]_vars

-----------------------------------------------------------------------------
(* One Fixer used for call after call: the fields stay as the last call    *)
(* left them, whether it returned or raised; the locals of fix are new in   *)
(* every call.                                                             *)

\* longest text, over ReuseAlphabet, given to a call of the reused Fixer
MaxReuseLen == 2

ReuseAlphabet == {"{", "}", "[", "]", "\"", ",", ":", "1"}

ReuseInputs ==
    UNION {[1..k -> ReuseAlphabet] : k \in 0..MaxReuseLen}
        \cup {<<"{", "\"", "a", "\"", ":">>, <<"{", "\"", "a", "\"", ":", "\"", "x">>,
              <<"[", "1", ",">>, <<"[", "1", ",", " ", " ">>, <<" ", "[", "1", "]">>}

\* a call of fix on the Fixer, new or used before
CallReused ==
    /\ pc = "idle"
    /\ \E s \in ReuseInputs : Enter(s)

\* the call is over, by return or by exception: its locals are gone, the
\* fields of the Fixer stay
Finish ==
    /\ pc \in {"returned", "raised", "IndexError"}
    /\ pc' = "idle"
    /\ json_string' = <<>>
    /\ head' = <<>> /\ body' = <<>> /\ tail' = <<>>
    /\ i' = 0 /\ tmp_json' = <<>> /\ result' = <<>> /\ error' = <<>>
    /\ KeepState

NextReuse ==
    \/ CallReused
    \/ Finish
    \/ ReturnBody
    \/ ReturnQuickFix
    \/ Reset
    \/ ScanToken
    \/ ScanWhitespace
    \/ PadStrip
    \/ PadLiteral
    \/ PadObject
    \/ PadObjectIndexError
    \/ PadStack
    \/ ReturnFixed
    \/ Raise

SpecReuse == Init /\ [][NextReuse]_vars

-----------------------------------------------------------------------------
(* What the claims speak of.                                               *)

\* the call of fix has ended
Terminal == {"returned", "raised", "IndexError"}

AllWhitespace(s) == \A k \in 1..Len(s) : s[k] \in whitespace
NoWhitespace(s) == \A k \in 1..Len(s) : s[k] \notin whitespace

\* the maximal prefix of whitespace characters
LeadingWs(s) ==
    IF AllWhitespace(s) THEN s
    ELSE SubSeq(s, 1, Min({k \in 1..Len(s) : s[k] \notin whitespace}) - 1)

\* the maximal suffix of whitespace characters that does not overlap LeadingWs
TrailingWs(s) ==
    IF AllWhitespace(s) THEN <<>>
    ELSE SubSeq(s, Max({k \in 1..Len(s) : s[k] \notin whitespace}) + 1, Len(s))

\* what remains between the two
Stripped(s) == SubSeq(s, Len(LeadingWs(s)) + 1, Len(s) - Len(TrailingWs(s)))

\* the proper non-empty prefixes of true, false and null
LiteralPrefixes ==
    UNION {{SubSeq(Literals[n], 1, k) : k \in 1..(Len(Literals[n]) - 1)} : n \in 1..Len(Literals)}

\* the literal a proper prefix identifies
LiteralOf(p) == Literals[CHOOSE n \in 1..Len(Literals) : StartsWith(Literals[n], p)]

\* the lengths of the tails of s that are proper prefixes of a literal
LiteralTails(s) == {n \in 1..Len(s) : SubSeq(s, Len(s) - n + 1, Len(s)) \in LiteralPrefixes}

\* s with its longest such tail replaced by the literal it identifies
WithLiteralTail(s) ==
    LET n == Max(LiteralTails(s))
    IN  SubSeq(s, 1, Len(s) - n) \o LiteralOf(SubSeq(s, Len(s) - n + 1, Len(s)))

(* A reading of a cut-off JSON document by the JSON grammar: the containers *)
(* still open (outermost first), whether the cut is inside a string, and    *)
(* what the last token before the cut is.                                   *)
ReadStart == [open |-> <<>>, instr |-> FALSE, esc |-> FALSE, iskey |-> FALSE, last |-> "none"]

ReadChar(r, c) ==
    IF r.instr THEN
        IF r.esc THEN [r EXCEPT !.esc = FALSE]
        ELSE IF c = "\\" THEN [r EXCEPT !.esc = TRUE]
        ELSE IF c = "\"" THEN [r EXCEPT !.instr = FALSE,
                                        !.last = IF r.iskey THEN "key" ELSE "value"]
        ELSE r
    ELSE IF c \in whitespace THEN r
    ELSE IF c = "\"" THEN
        [r EXCEPT !.instr = TRUE,
                  !.iskey = /\ Len(r.open) > 0
                            /\ r.open[Len(r.open)] = "{"
                            /\ r.last \in {"open", "comma"}]
    ELSE IF c \in {"{", "["} THEN [r EXCEPT !.open = Append(@, c), !.last = "open"]
    ELSE IF c \in {"}", "]"} THEN [r EXCEPT !.open = SubSeq(@, 1, Len(@) - 1), !.last = "value"]
    ELSE IF c = ":" THEN [r EXCEPT !.last = "colon"]
    ELSE IF c = "," THEN [r EXCEPT !.last = "comma"]
    ELSE [r EXCEPT !.last = "value"]

RECURSIVE ReadFrom(_, _, _)
ReadFrom(r, s, k) == IF k > Len(s) THEN r ELSE ReadFrom(ReadChar(r, s[k]), s, k + 1)
Read(s) == ReadFrom(ReadStart, s, 1)

RECURSIVE ClosersOf(_)
\* the closers of the open containers, innermost first
ClosersOf(open) ==
    IF Len(open) = 0 THEN <<>>
    ELSE <<IF open[Len(open)] = "{" THEN "}" ELSE "]">> \o ClosersOf(SubSeq(open, 1, Len(open) - 1))

\* a document of Documents cut off before its end, not ending in whitespace
CutDocument(s) ==
    /\ s \in Prefixes(Documents) \ Documents
    /\ Len(s) > 0
    /\ s[Len(s)] \notin whitespace

\* cut inside an object right after a key or right after the key's colon
CutAfterKeyOrColon(s) ==
    CutDocument(s) /\ ~Read(s).instr /\ Read(s).last \in {"key", "colon"}

\* cut right after a comma between elements or members
CutAfterComma(s) ==
    CutDocument(s) /\ ~Read(s).instr /\ Read(s).last = "comma"

-----------------------------------------------------------------------------
(* The claims.                                                             *)

\* C1 (closure correctness): whenever fix returns on one of its success
\* paths (the body already valid, a quick fix, or scan and pad with the
\* whitespace put back), the text it returns parses as valid JSON.  The blank
\* input, which fix hands back as an empty text, is left aside.
ClosureCorrectness ==
    (pc = "returned" /\ Len(body) > 0) => _is_valid_json(result)

\* C2 (idempotence on valid input): for every text that is a valid JSON
\* document, with whitespace around or between its tokens or not, fix returns
\* exactly that text.
IdempotentOnValid ==
    (pc \in Terminal /\ _is_valid_json(json_string))
        => (pc = "returned" /\ result = json_string)

\* C3 (trimmer contract): _trim gives leading + body + trailing equal to the
\* input, leading the maximal whitespace prefix, trailing the maximal
\* whitespace suffix that does not overlap it, body what remains (so body
\* neither starts nor ends with whitespace and is empty for a text that is all
\* whitespace).
TrimContract ==
    pc # "idle" =>
        /\ head \o body \o tail = json_string
        /\ head = LeadingWs(json_string)
        /\ tail = TrailingWs(json_string)
        /\ body = Stripped(json_string)
        /\ AllWhitespace(tail)
        /\ (Len(body) > 0 => body[1] \notin whitespace /\ body[Len(body)] \notin whitespace)
        /\ (AllWhitespace(json_string) => body = <<>>)

\* C4 (whitespace preservation): for leading whitespace L, trailing whitespace
\* T and a body X that is valid or that fix repairs, the output of
\* fix(L + X + T) begins with L and ends with T.
WhitespacePreserved ==
    LET L == LeadingWs(json_string)
        T == TrailingWs(json_string)
        X == Stripped(json_string)
    IN  (pc = "returned" /\ Len(X) > 0 /\ (_is_valid_json(X) \/ fix(X)[1] = "returned"))
            => (StartsWith(result, L) /\ EndsWith(result, T))

\* C5 (truncated-literal completion): fix of a proper non-empty prefix of
\* true, false or null returns the literal the prefix identifies; and a body
\* that ends, outside a string, in such a prefix has that tail replaced by the
\* literal before the object padding and the closers are appended.
LiteralCompleted ==
    /\ (pc \in Terminal /\ json_string \in LiteralPrefixes)
          => (pc = "returned" /\ result = LiteralOf(json_string))
    /\ (pc = "pad_object" /\ ~_is_in_string /\ LiteralTails(RStripComma(body)) # {})
          => tmp_json = WithLiteralTail(RStripComma(body))

\* C6 (missing-value synthesis): for a document cut off inside an object right
\* after a key or right after the key's colon, fix returns the body, then ":"
\* unless the body ends with it, then null, then the closers of the containers
\* still open, innermost first.  Stated for bodies without whitespace, where
\* the trimmer has nothing to split.
MissingValueSynthesized ==
    (pc \in Terminal /\ NoWhitespace(json_string) /\ CutAfterKeyOrColon(json_string))
        => /\ pc = "returned"
           /\ result = json_string
                       \o (IF Read(json_string).last = "key" THEN <<":">> ELSE <<>>)
                       \o _missing_value
                       \o ClosersOf(Read(json_string).open)

\* C7 (trailing-comma repair): for a document without whitespace cut off right
\* after a comma between array elements or object members, fix returns the
\* body without its trailing commas, then the closers of the containers still
\* open, innermost first.
TrailingCommaRepaired ==
    (pc \in Terminal /\ NoWhitespace(json_string) /\ CutAfterComma(json_string))
        => /\ pc = "returned"
           /\ result = RStripComma(json_string) \o ClosersOf(Read(json_string).open)

\* C8 (truncation after a comma followed by whitespace): for leading
\* whitespace, then a document cut off right after a comma, then two or more
\* whitespace characters, fix does not raise and returns the leading
\* whitespace, then the document without the comma and the whitespace after it,
\* then the closers of the open containers.
CommaThenWhitespaceRepaired ==
    LET D == Stripped(json_string)
    IN  (/\ pc \in Terminal
         /\ Len(TrailingWs(json_string)) >= 2
         /\ NoWhitespace(D)
         /\ CutAfterComma(D))
            => /\ pc = "returned"
               /\ result = LeadingWs(json_string) \o RStripComma(D) \o ClosersOf(Read(D).open)

\* C9 (no failure on valid or blank input): for an input that is all
\* whitespace or a valid JSON document, fix returns and raises nothing.
ValidNeverFails ==
    (pc \in Terminal /\ (AllWhitespace(json_string) \/ _is_valid_json(json_string)))
        => pc = "returned"

\* C10 (the failure reports the padding): when the padded text is still
\* invalid, the text the error reports is exactly what padding appended to the
\* body that was kept (the body without its trailing commas unless the scan
\* ended in a string, with its literal completed): kept + reported = attempted.
FailureReportsPadding ==
    pc = "raised" =>
        _pad_literal(_is_in_string, StripCommas(State, body)[2]) \o error = tmp_json

-----------------------------------------------------------------------------
(* The step-by-step run and fix as a function agree.                       *)

RunIsFix ==
    pc \in Terminal =>
        fix(json_string) = <<pc, IF pc = "returned" THEN result
                                 ELSE IF pc = "raised" THEN error ELSE <<>> >>

-----------------------------------------------------------------------------
(* The claims on the scanner, the padder and the reuse of a Fixer.         *)

\* C11 (no state persists across calls): on a Fixer used for call after call,
\* whatever the earlier calls did (returned early, raised, popped entries while
\* padding), every call ends as the same input ends on a new Fixer: the same
\* returned text or the same error.
NoStateAcrossCalls ==
    pc \in Terminal =>
        <<pc, IF pc = "returned" THEN result ELSE IF pc = "raised" THEN error ELSE <<>> >>
            = fix(json_string)

\* a later call returned the valid text 1 at once, on a Fixer that the call
\* before it had left inside a string with an entry on its stack
ReusedAfterStaleString ==
    /\ pc = "returned"
    /\ json_string = <<"1">>
    /\ result = <<"1">>
    /\ _is_in_string
    /\ _token_stack # <<>>

\* what padding may append: closers, and the synthesized ":" and null
PaddingChars == {"}", "]", "\"", ":", "n", "u", "l"}

\* what minimality lets stand for a body b at the start of the output: b, b
\* without its trailing commas, or that with its literal tail completed
KeptForms(b) ==
    {b, RStripComma(b)}
        \cup (IF LiteralTails(RStripComma(b)) # {} THEN {WithLiteralTail(RStripComma(b))} ELSE {})

\* C12 (minimality): when fix succeeds on a body (here one without
\* whitespace), the output starts with the body, changed at most in its
\* trailing commas and its completed literal tail, and everything after that is
\* appended closers or the synthesized ":" and null.
NothingRemoved ==
    (pc = "returned" /\ Len(json_string) > 0 /\ NoWhitespace(json_string))
        => \E k \in KeptForms(json_string) :
              /\ StartsWith(result, k)
              /\ Chars(From(result, Len(k))) \subseteq PaddingChars

\* cut inside a string value, or after a whole value or an opener of a container
CutInsideValue(s) ==
    /\ CutDocument(s)
    /\ \/ Read(s).instr /\ ~Read(s).iskey
       \/ ~Read(s).instr /\ Read(s).last \in {"value", "open"}

\* the closers of what a cut-off document leaves unmatched, innermost first:
\* the quote of the open string, then those of the open containers
UnmatchedClosers(s) ==
    (IF Read(s).instr THEN <<"\"">> ELSE <<>>) \o ClosersOf(Read(s).open)

\* C13 (closing order): for a body (without whitespace) cut off inside nested
\* containers or inside a string value, stack closing appends exactly the
\* closers of the unmatched openers, innermost first.
ClosersInnermostFirst ==
    [][(/\ pc = "pad_stack"
        /\ pc' = "validate"
        /\ NoWhitespace(json_string)
        /\ CutInsideValue(json_string))
          => tmp_json' = tmp_json \o UnmatchedClosers(json_string)]_vars

RECURSIVE OpenAt(_, _, _, _)
\* the source indices of the containers a cut-off document leaves open,
\* outermost first (entry by entry those of Read(s).open)
OpenAt(r, at, s, k) ==
    IF k > Len(s) THEN at
    ELSE OpenAt(ReadChar(r, s[k]),
                IF r.instr THEN at
                ELSE IF s[k] \in {"{", "["} THEN Append(at, k - 1)
                ELSE IF s[k] \in {"}", "]"} THEN SubSeq(at, 1, Len(at) - 1)
                ELSE at,
                s, k + 1)

\* the index of the most recent unmatched opener c of s, -1 when there is none
LastUnmatched(s, c) ==
    LET open == Read(s).open
        at == OpenAt(ReadStart, <<>>, s, 1)
        of == {j \in 1..Len(open) : open[j] = c}
    IN  IF of = {} THEN -1 ELSE at[Max(of)]

\* the innermost container a cut-off document leaves open, "" when none
Innermost(s) ==
    IF Len(Read(s).open) = 0 THEN "" ELSE Read(s).open[Len(Read(s).open)]

\* the part of the body the loop of fix has scanned
Scanned == SubSeq(body, 1, i)

\* C14 (scan state positions): after every scanned character of a body that is
\* a cut-off document, _last_object_position is the index of the most recent
\* "{" still unmatched in what was scanned, -1 when there is none, and
\* _last_array_position likewise for "["; so after an inner object closes
\* inside an open one, it is the index of the outer one.
PositionsAreLastUnmatched ==
    (pc = "scan" /\ body \in Prefixes(Documents))
        => /\ _last_object_position = LastUnmatched(Scanned, "{")
           /\ _last_array_position = LastUnmatched(Scanned, "[")

\* the text _pad_object is given: the body without its trailing commas (unless
\* the scan ended in a string), its literal completed
BeforePadObject == _pad_literal(_is_in_string, StripCommas(State, body)[2])

\* C15 (guard of the object-value completion): at the end of the scan of a
\* cut-off document, _last_array_position < _last_object_position exactly when
\* the innermost container still open is an object; and _pad_object adds its
\* ":" and null only when it is an object, never when it is an array.
GuardMeansInnermostObject ==
    /\ (pc = "scan" /\ i = Len(body) /\ CutDocument(body))
          => ((_last_array_position < _last_object_position) <=> (Innermost(body) = "{"))
    /\ (pc = "pad_stack" /\ CutDocument(body) /\ tmp_json # BeforePadObject)
          => Innermost(body) = "{"

\* C16 (escape-aware string detection): after every scanned character of a
\* body that is a cut-off document, _is_in_string is true exactly when what was
\* scanned ends inside a string literal, a quote closing the string unless an
\* odd number of backslashes precedes it.
InStringIsInsideLiteral ==
    (pc = "scan" /\ body \in Prefixes(Documents))
        => (_is_in_string <=> Read(Scanned).instr)

\* the places of the stack holding token
PlacesOf(stack, token) == {j \in 1..Len(stack) : stack[j][2] = token}

\* new is old without its j-th entry, the others in their order
WithoutEntry(new, old, j) ==
    /\ Len(new) = Len(old) - 1
    /\ \A k \in 1..Len(new) : new[k] = old[IF k < j THEN k ELSE k + 1]

\* the loop of fix hands the closer of opener to _stack, outside a string
ScansCloserOf(opener) ==
    /\ pc = "scan"
    /\ i < Len(body)
    /\ i' = i + 1
    /\ body[i + 1] = (IF opener = "{" THEN "}" ELSE "]")
    /\ ~_is_in_string

\* C17 (closers pop by type): scanning "}" (resp. "]") outside a string removes
\* exactly one stack entry, the "{" (resp. "[") entry nearest the tail, every
\* other entry and the order staying; with no such entry the stack stays as it
\* is; either way the last position of that kind becomes -1.
CloserPopsNearestOpener ==
    [][\A opener \in {"{", "["} :
         ScansCloserOf(opener) =>
           /\ IF PlacesOf(_token_stack, opener) = {}
              THEN _token_stack' = _token_stack
              ELSE \E j \in PlacesOf(_token_stack, opener) :
                     /\ \A k \in PlacesOf(_token_stack, opener) : k <= j
                     /\ WithoutEntry(_token_stack', _token_stack, j)
           /\ opener = "{" => _last_object_position' = -1
           /\ opener = "[" => _last_array_position' = -1]_vars

\* a "}" has been scanned outside a string and its "{" popped from under a
\* "," or ":" entry pushed after it, which stays
PoppedFromUnderAnEntry ==
    /\ pc = "scan"
    /\ i >= 3
    /\ body[i] = "}"
    /\ ~_is_in_string
    /\ _last_object_position = -1
    /\ PlacesOf(_token_stack, "{") = {}
    /\ \E j \in 1..Len(_token_stack) :
         /\ _token_stack[j][2] \in {",", ":"}
         /\ \E k \in 1.._token_stack[j][1] : body[k] = "{"

\* the stack's top entry is a string entry
StringOnTop == _last_token(_token_stack) = "\""

\* C18 as stated: in every state of the scan and of the padding the stack
\* holds at most one string entry, which is on top for as long as
\* _is_in_string is true and gone when it is false.
StringEntryWhileInString ==
    pc \in {"scan", "pad_literal", "pad_object", "pad_stack", "validate"}
        => /\ Cardinality(PlacesOf(_token_stack, "\"")) <= 1
           /\ _is_in_string => StringOnTop
           /\ ~_is_in_string => PlacesOf(_token_stack, "\"") = {}

\* C18 (one string entry), amended: in every state the stack holds at most
\* one string entry; during the scan and until _pad_object has run it is on
\* top exactly while _is_in_string is true and gone when the string has
\* closed; _pad_object may pop it and leave _is_in_string true.
SingleStringEntry ==
    /\ Cardinality(PlacesOf(_token_stack, "\"")) <= 1
    /\ pc \in {"scan", "pad_literal", "pad_object"}
          => /\ _is_in_string => StringOnTop
             /\ ~_is_in_string => PlacesOf(_token_stack, "\"") = {}
    /\ pc \in {"pad_stack", "validate"}
          => (PlacesOf(_token_stack, "\"") # {} => _is_in_string /\ StringOnTop)

\* the scan is inside a string that opened after a comma, several characters
\* in, the string entry the only one of its kind and on top
InsideStringAfterComma ==
    /\ pc = "scan"
    /\ _is_in_string
    /\ i >= 2
    /\ body[i] # "\""
    /\ body[i - 1] # "\""
    /\ StringOnTop
    /\ Len(_token_stack) >= 2
    /\ _token_stack[Len(_token_stack) - 1][2] = ","

\* the entries of the stack that are "," or ":"
Transients(stack) == PlacesOf(stack, ",") \cup PlacesOf(stack, ":")

\* C19 as stated: when _pad_stack runs, every "," and ":" entry has been
\* stripped or popped: the stack holds "{", "[" and string entries only.
NoTransientsAtStackClosing ==
    pc = "pad_stack" => Transients(_token_stack) = {}

\* C19 (transient entries at the stack closing), amended: "," and ":" entries
\* may still be on the stack when _pad_stack runs, and none of them adds a
\* character: what is appended is one closer for each "{", "[" and string
\* entry, the last entry's first.
TransientsAddNothing ==
    [][(pc = "pad_stack" /\ pc' = "validate") =>
         LET opens == (1..Len(_token_stack)) \ Transients(_token_stack)
             added == From(tmp_json', Len(tmp_json))
         IN  /\ StartsWith(tmp_json', tmp_json)
             /\ Len(added) = Cardinality(opens)
             /\ \A j \in opens :
                  added[Cardinality({k \in opens : k >= j})]
                      = (IF _token_stack[j][2] = "{" THEN "}"
                         ELSE IF _token_stack[j][2] = "[" THEN "]" ELSE "\"")]_vars

\* fix has returned a document cut after a key's colon, repaired, the colon's
\* entry still on the stack _pad_stack walked
ClosedOverTransient ==
    /\ pc = "returned"
    /\ CutAfterKeyOrColon(json_string)
    /\ PlacesOf(_token_stack, ":") # {}
    /\ PlacesOf(_token_stack, "{") # {}
    /\ result = json_string \o _missing_value \o ClosersOf(Read(json_string).open)

====
